---- MODULE Spec2Model ----
(***************************************************************************)
(* Model of Labfiles/06-translator-sdk/Python/translate-text/translate.py  *)
(* main(): client construction, the language selector loop, the            *)
(* translation loop and the single top-level exception boundary.           *)
(*                                                                         *)
(* Python strings read from the console are sequences of one-character     *)
(* strings, so that str.lower() is computed character by character.        *)
(* calls and replies log what client.translate was asked and answered.     *)
(* Printed lines are records [line, text]: the source line of the print    *)
(* (or input prompt) statement that wrote them and the text written.       *)
(* The remote service and the user are the environment: their answers are  *)
(* drawn from small sets.                                                  *)
(***************************************************************************)
EXTENDS Integers, Sequences, FiniteSets, TLC

VARIABLES pc, languagesResponse, targetLanguage, supportedLanguage,
          inputText, translationResponse, ex, out, calls, replies, listCalls, stdin

vars == <<pc, languagesResponse, targetLanguage, supportedLanguage,
          inputText, translationResponse, ex, out, calls, replies, listCalls, stdin>>

(* ---------------------------- bounds --------------------------------- *)

\* Number of console lines (language codes and texts) one session reads.
MaxReads == 4

(* ------------------------ values and strings ------------------------- *)

\* Python's None.
None == [py |-> "None"]

\* A local variable main() has not assigned yet.
Unbound == <<"<unbound>">>

quit == <<"q", "u", "i", "t">>
QUIT == <<"Q", "U", "I", "T">>
Quit == <<"Q", "u", "i", "t">>
Hello == <<"H", "e", "l", "l", "o">>
en == <<"e", "n">>
fr == <<"f", "r">>
xx == <<"x", "x">>

\* The lines the user may type at either prompt.
Inputs == {quit, QUIT, Quit, <<>>, Hello, fr, xx}

\* str.lower() on one character.
LowerChar(c) ==
  CASE c = "Q" -> "q"
    [] c = "U" -> "u"
    [] c = "I" -> "i"
    [] c = "T" -> "t"
    [] c = "H" -> "h"
    [] OTHER -> c

\* str.lower()
Lower(s) == [i \in 1..Len(s) |-> LowerChar(s[i])]

\* The text of a Python string, as it is written to the console.
RECURSIVE Str(_)
Str(s) == IF s = <<>> THEN "" ELSE Head(s) \o Str(Tail(s))

(* ------------------------ console lines ------------------------------ *)

CountLine(languages) ==
  [line |-> 49, text |-> ToString(Cardinality(DOMAIN languages)) \o " languages supported."]

HelpLine ==
  [line |-> 50,
   text |-> "(See https://learn.microsoft.com/azure/ai-services/translator/language-support#translation)"]

CodePromptLine ==
  [line |-> 51, text |-> "Enter a target language code for translation (for example, 'en'):"]

Banner(languages) == <<CountLine(languages), HelpLine, CodePromptLine>>

RejectionLine(code) ==
  [line |-> 66, text |-> Str(code) \o " is not a supported language."]

TextPromptLine ==
  [line |-> 76, text |-> "Enter text to translate (or 'quit' to exit): "]

ResultLine(text, source, translated) ==
  [line |-> 102,
   text |-> "'" \o Str(text) \o "' was translated from " \o source \o " to "
            \o translated.to \o " as '" \o translated.text \o "'."]

ErrorLine(e) == [line |-> 110, text |-> e.msg]

(* ------------------------ the remote service ------------------------- *)

\* Catalogs get_supported_languages(scope="translation") may return.
Catalogs ==
  { [c \in {} |-> "none"],
    [c \in {en, fr} |-> IF c = en THEN "English" ELSE "French"],
    [c \in {en, fr, xx} |-> IF c = en THEN "English" ELSE IF c = fr THEN "French" ELSE "Test"] }

\* Errors a remote call may raise.
ServiceErrors == {"(401) Unauthorized"}

Item(detected, translations) ==
  [detected_language |-> detected, translations |-> translations]

Detected(code) == [language |-> code]

\* Answers translate(body, to_language) may return.
Responses(to_language) ==
  LET t == Str(to_language[1]) IN
  { None,
    [py |-> "list", items |-> <<>>],
    [py |-> "list", items |-> <<Item(Detected("en"), <<[to |-> t, text |-> "Bonjour"]>>)>>],
    [py |-> "list", items |->
       <<Item(Detected("en"), <<[to |-> t, text |-> "Bonjour"], [to |-> "de", text |-> "Hallo"]>>),
         Item(Detected("es"), <<[to |-> t, text |-> "Salut"]>>)>>],
    [py |-> "list", items |-> <<Item(None, <<[to |-> t, text |-> "Bonjour"]>>)>>],
    [py |-> "list", items |-> <<Item(None, <<>>)>>] }

(* ------------------------ pure steps of main() ----------------------- *)

\* Variant: an empty code is taken as accepted.
IsSupported_EmptyAccepted(code, languages) == code = <<>> \/ code \in DOMAIN languages

\* Line 62: targetLanguage in languagesResponse.translation.keys()
IsSupported(code, languages) == code \in DOMAIN languages

\* Variant: the while condition compares without lowering.
LoopContinues_CaseSensitive(text) == text # quit

\* Line 74: the while condition of the translation loop.
LoopContinues(text) == Lower(text) # quit

\* Variant: every line read is sent for translation.
ShouldTranslate_Always(text) == TRUE

\* Variant: the guard lowers the line as the while condition does.
ShouldTranslate_Lowered(text) == Lower(text) # quit

\* Line 79: the guard of the translate call.
ShouldTranslate(text) == text # quit

\* Variant: the batch list outlives the iteration and keeps growing.
InputTextElements_Accumulates(text) ==
  (IF calls = <<>> THEN <<>> ELSE calls[Len(calls)].body) \o <<[text |-> text]>>

\* Line 82: input_text_elements
InputTextElements(text) == <<[text |-> text]>>

\* Variant: the placeholder literal is passed instead of the selection.
ToLanguage_Placeholder(target) == <<xx>>

\* Line 88: to_language=[targetLanguage]
ToLanguage(target) == <<target>>

\* Variant: the last result item is taken.
FirstTranslation_Last(response) ==
  IF response # None /\ Len(response.items) > 0
  THEN response.items[Len(response.items)] ELSE None

\* Line 92: translationResponse[0] if translationResponse else None
FirstTranslation(response) ==
  IF response # None /\ Len(response.items) > 0 THEN response.items[1] ELSE None

\* Lines 95-102: the lines the display step prints when nothing raises.
ResultLines(text, translation) ==
  IF translation = None
  THEN <<>>
  ELSE [i \in 1..Len(translation.translations) |->
          ResultLine(text, translation.detected_language.language, translation.translations[i])]

\* Line 102: sourceLanguage.language raises AttributeError when the item
\* carries no detected language and there is a translation to print.
DisplayRaises(translation) ==
  /\ translation # None
  /\ translation.detected_language = None
  /\ Len(translation.translations) > 0

\* Where control goes after one iteration's body: line 74 again.
AfterIteration(text) == IF LoopContinues(text) THEN "prompt" ELSE "terminated"

(* ------------------------------ Init --------------------------------- *)

Init ==
  /\ pc = "configure"
  /\ languagesResponse = None
  /\ targetLanguage = Unbound
  /\ supportedLanguage = FALSE
  /\ inputText = Unbound
  /\ translationResponse = None
  /\ ex = None
  /\ out = <<>>
  /\ calls = <<>>
  /\ replies = <<>>
  /\ listCalls = 0
  /\ stdin = <<>>

(* ----------------------------- actions ------------------------------- *)

\* Lines 28-40: configuration is loaded and the client is constructed.
ConfigureOk ==
  /\ pc = "configure"
  /\ pc' = "fetch"
  /\ UNCHANGED <<languagesResponse, targetLanguage, supportedLanguage, inputText,
                 translationResponse, ex, out, calls, replies, listCalls, stdin>>

\* Line 36: AzureKeyCredential(None) raises when TRANSLATOR_KEY is not set.
ConfigureRaise ==
  /\ pc = "configure"
  /\ ex' = [msg |-> "key must be a string.", line |-> 36]
  /\ pc' = "except"
  /\ UNCHANGED <<languagesResponse, targetLanguage, supportedLanguage, inputText,
                 translationResponse, out, calls, replies, listCalls, stdin>>

\* Lines 46-55: the catalog is fetched, the banner printed, the selector's
\* variables initialised.
FetchOk ==
  /\ pc = "fetch"
  /\ \E languages \in Catalogs :
       /\ languagesResponse' = [translation |-> languages]
       /\ out' = out \o Banner(languages)
  /\ listCalls' = listCalls + 1
  /\ targetLanguage' = xx
  /\ supportedLanguage' = FALSE
  /\ pc' = "select"
  /\ UNCHANGED <<inputText, translationResponse, ex, calls, replies, stdin>>

\* Variant: a failed list call is retried once.
FetchRaise_Retry ==
  /\ pc = "fetch"
  /\ listCalls' = listCalls + 1
  /\ \E m \in ServiceErrors : ex' = [msg |-> m, line |-> 46]
  /\ pc' = IF listCalls = 0 THEN "fetch" ELSE "except"
  /\ UNCHANGED <<languagesResponse, targetLanguage, supportedLanguage, inputText,
                 translationResponse, out, calls, replies, stdin>>

\* Line 46: get_supported_languages raises.
FetchRaise ==
  /\ pc = "fetch"
  /\ listCalls' = listCalls + 1
  /\ \E m \in ServiceErrors : ex' = [msg |-> m, line |-> 46]
  /\ pc' = "except"
  /\ UNCHANGED <<languagesResponse, targetLanguage, supportedLanguage, inputText,
                 translationResponse, out, calls, replies, stdin>>

\* Variant: the rejection is printed after every read (no else branch).
ReadLanguage_AlwaysRejects ==
  /\ pc = "select"
  /\ supportedLanguage = FALSE
  /\ Len(stdin) < MaxReads
  /\ \E code \in Inputs :
       /\ stdin' = Append(stdin, [line |-> 59, text |-> code])
       /\ targetLanguage' = code
       /\ out' = Append(out, RejectionLine(code))
       /\ IF IsSupported(code, languagesResponse.translation)
          THEN /\ supportedLanguage' = TRUE
               /\ inputText' = <<>>
               /\ pc' = AfterIteration(<<>>)
          ELSE /\ supportedLanguage' = FALSE
               /\ inputText' = inputText
               /\ pc' = "select"
  /\ UNCHANGED <<languagesResponse, translationResponse, ex, calls, replies, listCalls>>

\* Variant: the language-code prompt is printed again after a rejection.
ReadLanguage_Reprompt ==
  /\ pc = "select"
  /\ supportedLanguage = FALSE
  /\ Len(stdin) < MaxReads
  /\ \E code \in Inputs :
       /\ stdin' = Append(stdin, [line |-> 59, text |-> code])
       /\ targetLanguage' = code
       /\ IF IsSupported(code, languagesResponse.translation)
          THEN /\ supportedLanguage' = TRUE
               /\ inputText' = <<>>
               /\ pc' = AfterIteration(<<>>)
               /\ out' = out
          ELSE /\ supportedLanguage' = FALSE
               /\ inputText' = inputText
               /\ pc' = "select"
               /\ out' = out \o <<RejectionLine(code), CodePromptLine>>
  /\ UNCHANGED <<languagesResponse, translationResponse, ex, calls, replies, listCalls>>

\* Lines 58-66 (one iteration of the selector), then lines 71 and 74 when
\* the loop is left.
ReadLanguage ==
  /\ pc = "select"
  /\ supportedLanguage = FALSE
  /\ Len(stdin) < MaxReads
  /\ \E code \in Inputs :
       /\ stdin' = Append(stdin, [line |-> 59, text |-> code])
       /\ targetLanguage' = code
       /\ IF IsSupported(code, languagesResponse.translation)
          THEN /\ supportedLanguage' = TRUE
               /\ inputText' = <<>>
               /\ pc' = AfterIteration(<<>>)
               /\ out' = out
          ELSE /\ supportedLanguage' = FALSE
               /\ inputText' = inputText
               /\ pc' = "select"
               /\ out' = Append(out, RejectionLine(code))
  /\ UNCHANGED <<languagesResponse, translationResponse, ex, calls, replies, listCalls>>

\* Lines 76-82: the prompt is written, a line read and compared with "quit";
\* when the call is skipped, line 74 is evaluated again.
ReadText ==
  /\ pc = "prompt"
  /\ Len(stdin) < MaxReads
  /\ \E text \in Inputs :
       /\ stdin' = Append(stdin, [line |-> 76, text |-> text])
       /\ inputText' = text
       /\ pc' = IF ShouldTranslate(text) THEN "translate" ELSE AfterIteration(text)
  /\ out' = Append(out, TextPromptLine)
  /\ UNCHANGED <<languagesResponse, targetLanguage, supportedLanguage,
                 translationResponse, ex, calls, replies, listCalls>>

\* Line 88: client.translate returns.
TranslateOk ==
  /\ pc = "translate"
  /\ LET to_language == ToLanguage(targetLanguage) IN
       /\ calls' = Append(calls, [body |-> InputTextElements(inputText),
                                  to_language |-> to_language])
       /\ \E response \in Responses(to_language) :
            /\ translationResponse' = response
            /\ replies' = Append(replies, response)
  /\ pc' = "display"
  /\ UNCHANGED <<languagesResponse, targetLanguage, supportedLanguage, inputText,
                 ex, out, listCalls, stdin>>

\* Variant: the exception is caught inside the loop, which goes on.
TranslateRaise_CaughtInLoop ==
  /\ pc = "translate"
  /\ calls' = Append(calls, [body |-> InputTextElements(inputText),
                             to_language |-> ToLanguage(targetLanguage)])
  /\ \E m \in ServiceErrors :
       /\ ex' = [msg |-> m, line |-> 88]
       /\ replies' = Append(replies, [py |-> "raise", msg |-> m])
       /\ out' = Append(out, [line |-> 110, text |-> m])
  /\ pc' = AfterIteration(inputText)
  /\ UNCHANGED <<languagesResponse, targetLanguage, supportedLanguage, inputText,
                 translationResponse, listCalls, stdin>>

\* Line 88: client.translate raises.
TranslateRaise ==
  /\ pc = "translate"
  /\ calls' = Append(calls, [body |-> InputTextElements(inputText),
                             to_language |-> ToLanguage(targetLanguage)])
  /\ \E m \in ServiceErrors :
       /\ ex' = [msg |-> m, line |-> 88]
       /\ replies' = Append(replies, [py |-> "raise", msg |-> m])
  /\ pc' = "except"
  /\ UNCHANGED <<languagesResponse, targetLanguage, supportedLanguage, inputText,
                 translationResponse, out, listCalls, stdin>>

\* Lines 92-102, then line 74.
Display ==
  /\ pc = "display"
  /\ LET translation == FirstTranslation(translationResponse) IN
       /\ ~DisplayRaises(translation)
       /\ out' = out \o ResultLines(inputText, translation)
  /\ pc' = AfterIteration(inputText)
  /\ UNCHANGED <<languagesResponse, targetLanguage, supportedLanguage, inputText,
                 translationResponse, ex, calls, replies, listCalls, stdin>>

\* Lines 92-102: the first print raises AttributeError.
DisplayRaise ==
  /\ pc = "display"
  /\ DisplayRaises(FirstTranslation(translationResponse))
  /\ ex' = [msg |-> "'NoneType' object has no attribute 'language'", line |-> 102]
  /\ pc' = "except"
  /\ UNCHANGED <<languagesResponse, targetLanguage, supportedLanguage, inputText,
                 translationResponse, out, calls, replies, listCalls, stdin>>

\* Lines 107-110: the top-level boundary prints the exception; main returns.
Handler ==
  /\ pc = "except"
  /\ out' = Append(out, ErrorLine(ex))
  /\ pc' = "handled"
  /\ UNCHANGED <<languagesResponse, targetLanguage, supportedLanguage, inputText,
                 translationResponse, ex, calls, replies, listCalls, stdin>>

Next ==
  \/ ConfigureOk
  \/ ConfigureRaise
  \/ FetchOk
  \/ FetchRaise
  \/ ReadLanguage
  \/ ReadText
  \/ TranslateOk
  \/ TranslateRaise
  \/ Display
  \/ DisplayRaise
  \/ Handler

Spec == Init /\ [][Next]_vars

\* The service answers equal requests equally.
ServiceDeterministic ==
  \A i, j \in 1..Len(calls) : calls[i] = calls[j] => replies[i] = replies[j]

\* Line 88 against a deterministic service: client.translate returns.
DetTranslateOk == TranslateOk /\ ServiceDeterministic'

\* Line 88 against a deterministic service: client.translate raises.
DetTranslateRaise == TranslateRaise /\ ServiceDeterministic'

DetNext ==
  \/ ConfigureOk
  \/ ConfigureRaise
  \/ FetchOk
  \/ FetchRaise
  \/ ReadLanguage
  \/ ReadText
  \/ DetTranslateOk
  \/ DetTranslateRaise
  \/ Display
  \/ DisplayRaise
  \/ Handler

\* The session against a deterministic translation service.
DetSpec == Init /\ [][DetNext]_vars

\* The steps main() takes without waiting for the user: the program is
\* single-threaded and synchronous, and every remote call blocks until a
\* response or an error arrives.
ProgramStep ==
  \/ ConfigureOk
  \/ ConfigureRaise
  \/ FetchOk
  \/ FetchRaise
  \/ TranslateOk
  \/ TranslateRaise
  \/ Display
  \/ DisplayRaise
  \/ Handler

\* The session when every step that does not wait for the user is
\* eventually taken; the user is free never to type another line.
FairSpec == Spec /\ WF_vars(ProgramStep)

(* ----------------------------- typing -------------------------------- *)

TypeOK ==
  /\ pc \in {"configure", "fetch", "select", "prompt", "translate", "display",
             "terminated", "except", "handled"}
  /\ supportedLanguage \in BOOLEAN
  /\ listCalls \in 0..1
  /\ Len(stdin) <= MaxReads


(* ------------------- vocabulary of the properties -------------------- *)

\* The lines of out written by the statement at source line l.
Printed(l) == SelectSeq(out, LAMBDA r : r.line = l)

\* The lines read by the input() at source line l.
ReadAt(l) == SelectSeq(stdin, LAMBDA r : r.line = l)

\* An exception raised at source line l is pending or was handled.
Raised(l) == ex # None /\ ex.line = l

\* The translation loop (line 74) has been entered.
LoopStarted ==
  \/ pc \in {"prompt", "translate", "display", "terminated"}
  \/ Raised(88)
  \/ Raised(102)

\* The response held by the display step has no result items.
EmptyResponse ==
  \/ translationResponse = None
  \/ translationResponse.items = <<>>

\* The states of the translation loop's state machine.
LoopState(p) ==
  CASE p = "prompt" -> "Prompting"
    [] p = "translate" -> "Translating"
    [] p = "display" -> "Displaying"
    [] p = "terminated" -> "Terminated"
    [] OTHER -> "Outside"

(* ------------------------------- C1 ---------------------------------- *)

\* C1: a line that equals "quit" case-insensitively terminates the loop and
\* no translate call is issued for it: no translate call is pending or under
\* display for such a line, and no issued call carries such a line.
C1_SentinelIssuesNoCall ==
  /\ pc \in {"translate", "display"} => Lower(inputText) # quit
  /\ \A i \in 1..Len(calls) : Lower(calls[i].body[1].text) # quit

(* ------------------------------- C2 ---------------------------------- *)

\* C2: reading a catalog key c at the language prompt ends the selection
\* loop with targetLanguage = c and prints nothing.
C2_CatalogKeyAccepted ==
  [][\A c \in Inputs :
       ( /\ pc = "select"
         /\ stdin' = Append(stdin, [line |-> 59, text |-> c])
         /\ c \in DOMAIN languagesResponse.translation )
       => ( /\ pc' = "prompt"
            /\ supportedLanguage' = TRUE
            /\ targetLanguage' = c
            /\ out' = out )]_vars

C2_Witness ==
  /\ pc = "prompt"
  /\ stdin = <<[line |-> 59, text |-> xx], [line |-> 59, text |-> fr]>>
  /\ targetLanguage = fr
  /\ Printed(66) = <<[line |-> 66, text |-> "xx is not a supported language."]>>

(* ------------------------------- C3 ---------------------------------- *)

\* The codes read so far that were turned down: all of them while the
\* selector is still asking, all but the last once one was accepted.
C3_Rejected ==
  LET codes == ReadAt(59) IN
  IF supportedLanguage THEN SubSeq(codes, 1, Len(codes) - 1) ELSE codes

\* C3: every code that is not a catalog key (the empty string included)
\* gets exactly one rejection line naming it and the selector asks again,
\* without ending the session or issuing a translate call; the rejections
\* printed are exactly the codes before the first catalog key, in order, and
\* that key becomes the target.
C3_RejectionsAreTheInvalidPrefix ==
  languagesResponse # None =>
    LET codes == ReadAt(59)
        keys == DOMAIN languagesResponse.translation
    IN
    /\ Printed(66) = [i \in 1..Len(C3_Rejected) |->
                        [line |-> 66,
                         text |-> Str(C3_Rejected[i].text) \o " is not a supported language."]]
    /\ \A i \in 1..Len(C3_Rejected) : C3_Rejected[i].text \notin keys
    /\ supportedLanguage =>
         /\ codes[Len(codes)].text \in keys
         /\ targetLanguage = codes[Len(codes)].text
    /\ ~supportedLanguage =>
         /\ pc = "select"
         /\ calls = <<>>
         /\ ReadAt(76) = <<>>

C3_Witness ==
  /\ pc = "prompt"
  /\ ReadAt(59) = <<[line |-> 59, text |-> xx], [line |-> 59, text |-> <<>>],
                    [line |-> 59, text |-> fr]>>
  /\ Printed(66) = <<[line |-> 66, text |-> "xx is not a supported language."],
                     [line |-> 66, text |-> " is not a supported language."]>>
  /\ targetLanguage = fr

(* ------------------------------- C4 ---------------------------------- *)

\* C4: once the translation loop has started the target language is a
\* catalog key, is the code the selector accepted and never changes; every
\* translate call carries one text item and the target list
\* [targetLanguage]; before a code is accepted there is no translate call
\* and no text prompt.
C4_TargetIsTheAcceptedKey ==
  /\ [](LoopStarted =>
          /\ targetLanguage \in DOMAIN languagesResponse.translation
          /\ targetLanguage = ReadAt(59)[Len(ReadAt(59))].text
          /\ (targetLanguage = xx => xx \in DOMAIN languagesResponse.translation))
  /\ [](\A i \in 1..Len(calls) :
          /\ Len(calls[i].body) = 1
          /\ calls[i].to_language = <<targetLanguage>>)
  /\ [](~LoopStarted => calls = <<>> /\ Printed(76) = <<>> /\ ReadAt(76) = <<>>)
  /\ [][LoopStarted => targetLanguage' = targetLanguage]_vars

C4_Witness ==
  /\ pc = "prompt"
  /\ targetLanguage = fr
  /\ Len(calls) = 2
  /\ calls[2] = [body |-> <<[text |-> Hello]>>, to_language |-> <<fr>>]

(* ------------------------------- C5 ---------------------------------- *)

\* C5: an exception raised by a translate call ends the session: from then
\* on no prompt is shown, no line is read, no translate call is made and no
\* result line is printed; the error description is printed once, as the
\* last line of the session.
C5_TranslateFailureEndsSession ==
  /\ [](Raised(88) =>
          /\ pc \in {"except", "handled"}
          /\ Len(Printed(110)) = (IF pc = "handled" THEN 1 ELSE 0)
          /\ pc = "handled" => out[Len(out)] = [line |-> 110, text |-> ex.msg])
  /\ [][Raised(88) =>
          /\ stdin' = stdin
          /\ calls' = calls
          /\ ex' = ex
          /\ out' = Append(out, [line |-> 110, text |-> ex.msg])]_vars

C5_Witness ==
  /\ pc = "handled"
  /\ Raised(88)
  /\ Len(calls) = 2
  /\ Len(Printed(102)) = 1
  /\ out[Len(out)] = [line |-> 110, text |-> "(401) Unauthorized"]

(* ------------------------------- C6 ---------------------------------- *)

\* C6: when the translate call returned an empty or absent response, the
\* display step prints nothing, raises nothing and the loop goes on to
\* prompt for the next line.
C6_EmptyResponseContinues ==
  [][(pc = "display" /\ EmptyResponse) =>
       /\ out' = out
       /\ ex' = None
       /\ pc' = "prompt"]_vars

(* ------------------------------- C7 ---------------------------------- *)

\* C7: the translation loop only moves Prompting -> Terminated,
\* Prompting -> Translating, Translating -> Displaying and
\* Displaying -> Prompting; Terminated is never left.
C7_LoopTransitions ==
  [][(LoopState(pc) # "Outside" /\ LoopState(pc') # "Outside") =>
       <<LoopState(pc), LoopState(pc')>> \in
          { <<"Prompting", "Terminated">>,
            <<"Prompting", "Translating">>,
            <<"Translating", "Displaying">>,
            <<"Displaying", "Prompting">> }]_vars

(* ------------------------------- C8 ---------------------------------- *)

\* C8: for a non-empty response whose first item has a detected source s,
\* the display step prints one line per (t, x) of that item's translation
\* list, in order, "'<inputText>' was translated from s to t as 'x'.", and
\* nothing else: one line for a one-entry list, nothing from later items.
C8_OneResultLinePerPair ==
  [][( /\ pc = "display"
       /\ ~EmptyResponse
       /\ translationResponse.items[1].detected_language # None )
     => LET first == translationResponse.items[1]
            s == first.detected_language.language
        IN
        /\ Len(out') = Len(out) + Len(first.translations)
        /\ SubSeq(out', 1, Len(out)) = out
        /\ \A i \in 1..Len(first.translations) :
             out'[Len(out) + i] =
               [line |-> 102,
                text |-> "'" \o Str(inputText) \o "' was translated from " \o s
                         \o " to " \o first.translations[i].to
                         \o " as '" \o first.translations[i].text \o "'."]
        /\ ( /\ inputText = Hello
             /\ first.translations = <<[to |-> "fr", text |-> "Bonjour"]>>
             /\ s = "en" )
           => out' = Append(out, [line |-> 102,
                 text |-> "'Hello' was translated from en to fr as 'Bonjour'."])]_vars

C8_Witness ==
  /\ pc = "prompt"
  /\ translationResponse # None
  /\ Len(translationResponse.items) = 2
  /\ Printed(102) =
       <<[line |-> 102, text |-> "'Hello' was translated from en to fr as 'Bonjour'."],
         [line |-> 102, text |-> "'Hello' was translated from en to fr as 'Bonjour'."],
         [line |-> 102, text |-> "'Hello' was translated from en to de as 'Hallo'."]>>

(* ------------------------------- C9 ---------------------------------- *)

\* C9: a failed list-supported-languages call is not retried: the call was
\* made once, no line was read, neither banner nor prompt was printed, no
\* translate call was issued; the session ends after printing the error
\* description once.
C9_ListFailureEndsSession ==
  Raised(46) =>
    /\ listCalls = 1
    /\ stdin = <<>>
    /\ calls = <<>>
    /\ languagesResponse = None
    /\ pc \in {"except", "handled"}
    /\ out = (IF pc = "handled" THEN <<[line |-> 110, text |-> ex.msg]>> ELSE <<>>)

C9_Witness ==
  /\ pc = "handled"
  /\ Raised(46)
  /\ out = <<[line |-> 110, text |-> "(401) Unauthorized"]>>

(* ------------------------------- C10 --------------------------------- *)

\* C10: the catalog is fetched once, before any line is read, and is not
\* modified afterwards; each banner line (count, help pointer, code prompt)
\* is printed once, at the head of the output, however many codes are
\* rejected.
C10_CatalogAndBannerOnce ==
  /\ [](/\ listCalls <= 1
        /\ stdin # <<>> => listCalls = 1 /\ languagesResponse # None
        /\ languagesResponse # None =>
             LET n == Cardinality(DOMAIN languagesResponse.translation) IN
             /\ listCalls = 1
             /\ Len(Printed(49)) = 1
             /\ Len(Printed(50)) = 1
             /\ Len(Printed(51)) = 1
             /\ out[1] = [line |-> 49, text |-> ToString(n) \o " languages supported."]
             /\ out[2].line = 50
             /\ out[3].line = 51)
  /\ [][languagesResponse # None => languagesResponse' = languagesResponse]_vars

C10_Witness ==
  /\ pc = "select"
  /\ Len(Printed(66)) = 3
  /\ Len(Printed(51)) = 1
  /\ out[1] = [line |-> 49, text |-> "2 languages supported."]

(* ------------------------------- C11 --------------------------------- *)

\* C11: when the first line the translation loop reads is "quit", the loop
\* terminates at once, and the whole session issues no translate call,
\* prints no result line and reads no further line.
C11_QuitFirstDoesNothing ==
  (ReadAt(76) # <<>> /\ ReadAt(76)[1].text = quit) =>
    /\ pc = "terminated"
    /\ calls = <<>>
    /\ Printed(102) = <<>>
    /\ Len(ReadAt(76)) = 1
    /\ ex = None

C11_Witness ==
  /\ pc = "terminated"
  /\ stdin = <<[line |-> 59, text |-> <<>>], [line |-> 59, text |-> fr],
               [line |-> 76, text |-> quit]>>
  /\ calls = <<>>

(* ------------------------------- C14 --------------------------------- *)

\* The lines read by the translation loop that are not exactly "quit".
C14_NotQuit == SelectSeq(ReadAt(76), LAMBDA r : r.text # quit)

C12_SentinelEntered ==
  /\ ReadAt(76) # <<>>
  /\ Lower(ReadAt(76)[Len(ReadAt(76))].text) = quit

\* C12: unless a remote call fails (an answer the display step cannot read
\* counts as a failed call), the session terminates once the user has
\* entered a catalog key and then the sentinel; the selector has no attempt
\* limit: after n codes that are all invalid it is still asking, with n
\* rejections printed and ready to read another code; and the translation
\* loop does not terminate while no sentinel has been entered.
C12_TerminatesOnlyOnSentinel ==
  /\ C12_SentinelEntered ~> (pc = "terminated" \/ ex # None)
  /\ []((languagesResponse # None /\ ~supportedLanguage) =>
          /\ pc = "select"
          /\ Len(Printed(66)) = Len(ReadAt(59))
          /\ Len(ReadAt(59)) = Len(stdin)
          /\ Len(stdin) < MaxReads => ENABLED ReadLanguage)
  /\ [](pc = "terminated" => C12_SentinelEntered)
  /\ []((LoopStarted /\ ex = None /\ ~C12_SentinelEntered) =>
          pc \in {"prompt", "translate", "display"})

C12_Witness ==
  /\ pc = "terminated"
  /\ stdin = <<[line |-> 59, text |-> xx], [line |-> 59, text |-> fr],
               [line |-> 76, text |-> Hello], [line |-> 76, text |-> QUIT]>>
  /\ Len(calls) = 2
  /\ ex = None

(* ------------------------------- C13 --------------------------------- *)

\* Where in out the prompt of the k-th iteration of the translation loop is.
C13_PromptAt(k) ==
  CHOOSE p \in 1..Len(out) :
    /\ out[p].line = 76
    /\ Cardinality({q \in 1..p : out[q].line = 76}) = k

\* What the k-th iteration printed after its prompt.
C13_PrintedBy(k) ==
  SubSeq(out, C13_PromptAt(k) + 1,
         IF k < Len(Printed(76)) THEN C13_PromptAt(k + 1) - 1 ELSE Len(out))

\* The k-th iteration has run to its end.
C13_Complete(k) == k < Len(ReadAt(76)) \/ pc \in {"prompt", "terminated"}

\* C13: with a deterministic service, a text entered twice gets two
\* translate calls with the same text item and target list, the second
\* fails no more than the first, and both iterations print the same result
\* lines.
C13_SameTextSameOutcome ==
  \A i, j \in 1..Len(ReadAt(76)) :
    (i < j /\ ReadAt(76)[i].text = ReadAt(76)[j].text) =>
      /\ j <= Len(calls) =>
           /\ calls[i] = calls[j]
           /\ calls[j].body = <<[text |-> ReadAt(76)[j].text]>>
           /\ j = Len(ReadAt(76)) => ex = None
      /\ C13_Complete(j) =>
           /\ j <= Len(calls)
           /\ C13_PrintedBy(i) = C13_PrintedBy(j)
           /\ \A n \in 1..Len(C13_PrintedBy(j)) : C13_PrintedBy(j)[n].line = 102

C13_Witness ==
  /\ pc = "prompt"
  /\ ReadAt(76) = <<[line |-> 76, text |-> Hello], [line |-> 76, text |-> Hello]>>
  /\ calls = <<[body |-> <<[text |-> Hello]>>, to_language |-> <<fr>>],
               [body |-> <<[text |-> Hello]>>, to_language |-> <<fr>>]>>
  /\ C13_PrintedBy(1) =
       <<[line |-> 102, text |-> "'Hello' was translated from en to fr as 'Bonjour'."],
         [line |-> 102, text |-> "'Hello' was translated from en to de as 'Hallo'."]>>
  /\ C13_PrintedBy(2) = C13_PrintedBy(1)

====
